---- MODULE Spec2Model ----
(***************************************************************************)
(* Model of the arksia radial-profile pipeline: the configuration          *)
(* assembler model_setup (radial_pipeline.py) and the bulk results driver  *)
(* main (arksia/bulk_pipeline_results.py).                                 *)
(*                                                                         *)
(* Conventions                                                             *)
(*  - a JSON object / Python dict is a function from (dotted) key strings  *)
(*    to values; a key that is absent is absent from the DOMAIN, and a     *)
(*    lookup of an absent key is the KeyError of the code.                 *)
(*  - a path is a sequence of path components; os.path.join appends        *)
(*    components, os.path.dirname drops the last one; the empty string     *)
(*    (a falsy save_dir) is the empty sequence.                            *)
(*  - an optional JSON value is <<>> (null) or <<v>>.                      *)
(*  - robust values are in tenths (5 is 0.5, 20 is 2.0).                   *)
(*  - stellar fluxes: the candidates are in the units of their files       *)
(*    (custom_fstar, SED_fstar in uJy, the MCMC median in mJy); the        *)
(*    resulting frank.fstar [Jy] is held in uJy, so "/ 1e6" keeps the      *)
(*    number and "/ 1e3" multiplies it by MilliToMicro.                    *)
(*  - an operator that models code which can raise returns a record        *)
(*    [exc |-> "none" or the exception's name, val |-> the result].        *)
(***************************************************************************)
EXTENDS Integers, Sequences, FiniteSets, TLC

VARIABLES
    fs,           \* the file system: path -> file content
    opts,         \* the arguments of the call under way
    pc,           \* control position
    ii,           \* main: loop index (0-based, as enumerate gives it)
    disk_names,   \* main: the list of source names
    gen_pars,     \* main: the general-parameter mapping held in memory
    source_pars,  \* main: the per-source mapping held in memory
    model,        \* the configuration model_setup returned last (or Unbound)
    fits,         \* main: the profiles loaded last (or Unbound)
    figs,         \* main: the curves drawn so far, per figure and panel
    exc,          \* the exception raised, [name, at]; name is "none" while none
    written,      \* paths written by savetxt / savefig in the current run
    run,          \* number of the run under way (1 or 2)
    built,        \* main: the configuration built for each source in this run
    loaded,       \* main: the sources whose profiles were loaded in this run
    hist          \* what the previous call produced (for comparisons)

vars == <<fs, opts, pc, ii, disk_names, gen_pars, source_pars, model, fits,
          figs, exc, written, run, built, loaded, hist>>

----------------------------------------------------------------------------
(* Bounds of the model *)

MaxFlux == 2          \* candidate stellar fluxes range over 0..MaxFlux

MaxSmall == 3         \* short source lists have 0..MaxSmall sources

MaxOver == 1          \* long source lists have up to NPanels + MaxOver sources

MaxNphi == 4          \* a wedge has 1..MaxNphi angles

----------------------------------------------------------------------------
(* Dicts, optional values, paths.  A JSON object file whose key order matters *)
(* (the per-source file) is [keys |-> the keys in file order, vals |-> dict]. *)

EmptyDict == [k \in {} |-> 0]

Put(d, k, v) == [x \in (DOMAIN d) \cup {k} |-> IF x = k THEN v ELSE d[x]]

Del(d, k) == [x \in (DOMAIN d) \ {k} |-> d[x]]

Has(d, k) == k \in DOMAIN d

Unbound == [unbound |-> TRUE]

IsUnbound(v) == DOMAIN v = {"unbound"}

Ok(v) == [exc |-> "none", val |-> v]

Raise(e) == [exc |-> e, val |-> Unbound]

Join(p, q) == p \o q

Dirname(p) == SubSeq(p, 1, Len(p) - 1)

\* json.load(open(path, 'r'))
JsonLoad(files, path) ==
    IF path \in DOMAIN files THEN Ok(files[path]) ELSE Raise("FileNotFoundError")

\* JsonDump writing nothing
JsonDump_Nothing(files, path, obj) == files

\* with open(path, 'w') as f: json.dump(obj, f)
JsonDump(files, path, obj) == Put(files, path, obj)

----------------------------------------------------------------------------
(* radial_pipeline.model_setup *)

MilliToMicro == 1000

\* SetDirs with the rave directory given the suffix of the clean one
SetDirs_RaveIsClean(m, base_parameter_filename) ==
    LET sd == IF m["base.save_dir"] = <<>>
              THEN Join(Dirname(base_parameter_filename), <<"disks", m["base.disk"]>>)
              ELSE m["base.save_dir"]
        m1 == Put(m, "base.save_dir", sd)
        m2 == Put(m1, "base.clean_dir", Join(sd, <<"clean">>))
        m3 == Put(m2, "base.rave_dir", Join(sd, <<"clean">>))
    IN  Put(m3, "base.frank_dir", Join(sd, <<"frank">>))

\* lines 67-75: the save directory and the three directories derived from it
SetDirs(m, base_parameter_filename) ==
    LET sd == IF m["base.save_dir"] = <<>>
              THEN Join(Dirname(base_parameter_filename), <<"disks", m["base.disk"]>>)
              ELSE m["base.save_dir"]
        m1 == Put(m, "base.save_dir", sd)
        m2 == Put(m1, "base.clean_dir", Join(sd, <<"clean">>))
        m3 == Put(m2, "base.rave_dir", Join(sd, <<"rave">>))
    IN  Put(m3, "base.frank_dir", Join(sd, <<"frank">>))

\* lines 77-93: values copied from the source's parameters
CopySourcePars(m, disk_pars) ==
    LET m1 == Put(m, "base.SMG_sub",
                  IF disk_pars["base.SMG_sub"] = TRUE THEN "SMGsub." ELSE "")
        m2 == Put(m1, "base.dist", disk_pars["base.dist"])
        m3 == Put(m2, "clean.npix", disk_pars["clean.npix"])
        m4 == Put(m3, "clean.pixel_scale", disk_pars["clean.pixel_scale"])
        m5 == Put(m4, "clean.image_rms", disk_pars["clean.image_rms"])
        m6 == Put(m5, "rave.pixel_scale", disk_pars["rave.pixel_scale"])
        m7 == Put(m6, "frank.bestfit.alpha", disk_pars["frank.bestfit.alpha"])
        m8 == Put(m7, "frank.bestfit.wsmooth", disk_pars["frank.bestfit.wsmooth"])
    IN  Put(m8, "frank.bestfit.method", disk_pars["frank.bestfit.method"])

\* lines 96-102: the source geometry from the MCMC results
Geom(mcmc) ==
    [inc |-> mcmc["i"][1], PA |-> mcmc["PA"][1],
     dRA |-> mcmc["deltaRA-12m.obs1"][1], dDec |-> mcmc["deltaDec-12m.obs1"][1]]

\* SelectFstar with the 'SED' branch reading custom_fstar (copied branch)
SelectFstar_SEDReadsCustom(m, disk_pars, mcmc) ==
    IF m["frank.set_fstar"] \in {"custom", "SED"} THEN
        IF Has(disk_pars, "frank.custom_fstar")
        THEN Ok(Put(m, "frank.fstar", disk_pars["frank.custom_fstar"]))
        ELSE Raise("KeyError")
    ELSE IF m["frank.set_fstar"] = "MCMC" THEN
        IF Has(mcmc, "fstar") /\ mcmc["fstar"] # <<>>
        THEN Ok(Put(m, "frank.fstar", mcmc["fstar"][1] * MilliToMicro))
        ELSE Ok(Put(m, "frank.fstar", 0))
    ELSE Raise("ValueError")

\* SelectFstar with the MCMC branch as the final else (no ValueError)
SelectFstar_NoValueError(m, disk_pars, mcmc) ==
    IF m["frank.set_fstar"] = "custom" THEN
        IF Has(disk_pars, "frank.custom_fstar")
        THEN Ok(Put(m, "frank.fstar", disk_pars["frank.custom_fstar"]))
        ELSE Raise("KeyError")
    ELSE IF m["frank.set_fstar"] = "SED" THEN
        IF Has(disk_pars, "frank.SED_fstar")
        THEN Ok(Put(m, "frank.fstar", disk_pars["frank.SED_fstar"]))
        ELSE Raise("KeyError")
    ELSE
        IF Has(mcmc, "fstar") /\ mcmc["fstar"] # <<>>
        THEN Ok(Put(m, "frank.fstar", mcmc["fstar"][1] * MilliToMicro))
        ELSE Ok(Put(m, "frank.fstar", 0))

\* SelectFstar without the try/except around the MCMC lookup
SelectFstar_KeyErrorEscapes(m, disk_pars, mcmc) ==
    IF m["frank.set_fstar"] = "custom" THEN
        IF Has(disk_pars, "frank.custom_fstar")
        THEN Ok(Put(m, "frank.fstar", disk_pars["frank.custom_fstar"]))
        ELSE Raise("KeyError")
    ELSE IF m["frank.set_fstar"] = "SED" THEN
        IF Has(disk_pars, "frank.SED_fstar")
        THEN Ok(Put(m, "frank.fstar", disk_pars["frank.SED_fstar"]))
        ELSE Raise("KeyError")
    ELSE IF m["frank.set_fstar"] = "MCMC" THEN
        IF Has(mcmc, "fstar") /\ mcmc["fstar"] # <<>>
        THEN Ok(Put(m, "frank.fstar", mcmc["fstar"][1] * MilliToMicro))
        ELSE Raise("KeyError")
    ELSE Raise("ValueError")

\* lines 105-117: the stellar flux, chosen by frank.set_fstar.  An entry of the
\* MCMC file is <<median>>, or <<>> when it has no "median".
SelectFstar(m, disk_pars, mcmc) ==
    IF m["frank.set_fstar"] = "custom" THEN
        IF Has(disk_pars, "frank.custom_fstar")
        THEN Ok(Put(m, "frank.fstar", disk_pars["frank.custom_fstar"]))
        ELSE Raise("KeyError")
    ELSE IF m["frank.set_fstar"] = "SED" THEN
        IF Has(disk_pars, "frank.SED_fstar")
        THEN Ok(Put(m, "frank.fstar", disk_pars["frank.SED_fstar"]))
        ELSE Raise("KeyError")
    ELSE IF m["frank.set_fstar"] = "MCMC" THEN
        IF Has(mcmc, "fstar") /\ mcmc["fstar"] # <<>>
        THEN Ok(Put(m, "frank.fstar", mcmc["fstar"][1] * MilliToMicro))
        ELSE Ok(Put(m, "frank.fstar", 0))
    ELSE Raise("ValueError")

\* EnforceNormal testing the truth of scale_heights (0 counts as none)
EnforceNormal_IfTruthy(m) ==
    IF m["frank.scale_heights"] \notin {<<>>, <<0>>}
    THEN Put(Put(m, "frank.method", "Normal"), "frank.max_iter", 2000)
    ELSE m

\* lines 119-123: a Normal fit is enforced when a scale height is to be found
EnforceNormal(m) ==
    IF m["frank.scale_heights"] # <<>>
    THEN Put(Put(m, "frank.method", "Normal"), "frank.max_iter", 2000)
    ELSE m

\* lines 56-125
model_setup(files, parsed_args) ==
    LET base == JsonLoad(files, parsed_args.base_parameter_filename)
        src  == JsonLoad(files, parsed_args.source_parameter_filename)
    IN
    IF base.exc # "none" THEN Raise(base.exc)
    ELSE IF src.exc # "none" THEN Raise(src.exc)
    ELSE IF ~Has(src.val.vals, parsed_args.disk) THEN Raise("KeyError")
    ELSE
      LET m0 == Put(base.val, "base.disk", parsed_args.disk)
          disk_pars == src.val.vals[parsed_args.disk]
          m1 == CopySourcePars(SetDirs(m0, parsed_args.base_parameter_filename),
                               disk_pars)
          mc == JsonLoad(files, Join(m1["base.save_dir"], <<"MCMC_results.json">>))
      IN
      IF mc.exc # "none" THEN Raise(mc.exc)
      ELSE
        LET m2 == Put(m1, "base.geom", Geom(mc.val))
            sel == SelectFstar(m2, disk_pars, mc.val)
        IN  IF sel.exc # "none" THEN Raise(sel.exc)
            ELSE Ok(EnforceNormal(sel.val))

----------------------------------------------------------------------------
(* Input files *)

GenParF == <<"work", "pars_gen.json">>

SourceParF == <<"work", "pars_source.json">>

PhysParF == <<"work", "summary_disc_parameters.csv">>

Name(d) == "S" \o ToString(d)

Opt(S) == {<<>>} \cup {<<v>> : v \in S}

\* the general parameter file: save_dir is <<>> (empty) or a directory
GenParsFile(save_dir, set_fstar, scale_heights, method) ==
    ("base.input_dir" :> "") @@ ("base.save_dir" :> save_dir) @@
    ("clean.robust" :> 20) @@ ("clean.Nphi" :> 180) @@
    ("frank.set_fstar" :> set_fstar) @@
    ("frank.scale_heights" :> scale_heights) @@
    ("frank.method" :> method) @@ ("frank.max_iter" :> 1000)

\* one source's entry of the per-source file; robust, custom and sed are
\* optional (<<>> leaves the key out)
SourceEntry(dist, robust, custom, sed) ==
    LET e0 == ("base.SMG_sub" :> FALSE) @@ ("base.dist" :> dist) @@
              ("clean.npix" :> 1024) @@ ("clean.pixel_scale" :> 3) @@
              ("clean.image_rms" :> 1) @@ ("rave.pixel_scale" :> 3) @@
              ("frank.bestfit.alpha" :> 15) @@ ("frank.bestfit.wsmooth" :> 1) @@
              ("frank.bestfit.method" :> "Normal")
        e1 == IF robust = <<>> THEN e0 ELSE Put(e0, "clean.bestfit.robust", robust[1])
        e2 == IF custom = <<>> THEN e1 ELSE Put(e1, "frank.custom_fstar", custom[1])
    IN  IF sed = <<>> THEN e2 ELSE Put(e2, "frank.SED_fstar", sed[1])

\* an MCMC results file; fstar.entry says whether the file has an "fstar"
\* entry, fstar.median is <<>> (an entry without a median) or <<median>>
McmcFile(fstar) ==
    LET g == ("i" :> <<30>>) @@ ("PA" :> <<40>>) @@
             ("deltaRA-12m.obs1" :> <<0>>) @@ ("deltaDec-12m.obs1" :> <<0>>)
    IN  IF fstar.entry THEN Put(g, "fstar", fstar.median) ELSE g

NoEntry == [entry |-> FALSE, median |-> <<>>]

McmcOpt(S) == {NoEntry} \cup {[entry |-> TRUE, median |-> o] : o \in Opt(S)}

\* the directory model_setup reads a source's MCMC results from
SaveDirOf(save_dir, disk) ==
    IF save_dir = <<>> THEN Join(Dirname(GenParF), <<"disks", disk>>) ELSE save_dir

----------------------------------------------------------------------------
(* input_output.load_bestfit_profiles and numpy.interp *)

ProfileName(method, robust) == method \o "_profile_robust" \o ToString(robust) \o ".txt"

\* (the loader is not among the sources at hand: it is modelled from the
\* profile files the pipeline saves, radial_pipeline.py lines 205-206, 263-264)
\* the profiles previously saved for the model's source: clean and rave ones
\* at the robust value asked for, and the frank solution
load_bestfit_profiles(files, m, robust, include_rave) ==
    LET cp == Join(m["base.clean_dir"], <<ProfileName("clean", robust)>>)
        rp == Join(m["base.rave_dir"], <<ProfileName("rave", robust)>>)
        fp == Join(m["base.frank_dir"], <<"bestfit_frank_sol.obj">>)
    IN  IF cp \notin DOMAIN files \/ fp \notin DOMAIN files
           \/ (include_rave /\ rp \notin DOMAIN files)
        THEN Raise("FileNotFoundError")
        ELSE Ok(<<files[cp],
                  IF include_rave THEN files[rp] ELSE EmptyDict,
                  files[fp]>>)

\* Interp1 taking the value of the node at or before x (no interpolation)
Interp1_LeftNode(x, xp, fp) ==
    IF x <= xp[1] THEN fp[1]
    ELSE IF x >= xp[Len(xp)] THEN fp[Len(xp)]
    ELSE LET i == CHOOSE j \in 1..(Len(xp) - 1) : xp[j] <= x /\ x < xp[j + 1]
         IN  fp[i]

\* Interp1 taking the mean of the two nodes around x, wherever x lies between
\* them
Interp1_SegmentMean(x, xp, fp) ==
    IF x < xp[1] THEN fp[1]
    ELSE IF x >= xp[Len(xp)] THEN fp[Len(xp)]
    ELSE LET i == CHOOSE j \in 1..(Len(xp) - 1) : xp[j] <= x /\ x < xp[j + 1]
         IN  (fp[i] + fp[i + 1]) \div 2

\* numpy.interp at one point: linear between the nodes, the end values outside
Interp1(x, xp, fp) ==
    IF x <= xp[1] THEN fp[1]
    ELSE IF x >= xp[Len(xp)] THEN fp[Len(xp)]
    ELSE LET i == CHOOSE j \in 1..(Len(xp) - 1) : xp[j] <= x /\ x < xp[j + 1]
         IN  fp[i] + ((x - xp[i]) * (fp[i + 1] - fp[i])) \div (xp[i + 1] - xp[i])

\* numpy.interp(x, xp, fp)
Interp(x, xp, fp) == [k \in 1..Len(x) |-> Interp1(x[k], xp, fp)]

----------------------------------------------------------------------------
(* arksia.bulk_pipeline_results.main: helpers *)

NRows == 5

NCols == 4

NPanels == NRows * NCols

\* line 52: plt.subplots(nrows=5, ncols=4): a grid of empty axes
Subplots == [r \in 0..(NRows - 1) |-> [c \in 0..(NCols - 1) |-> <<>>]]

\* PanelOf with the axes flattened column by column
PanelOf_ColumnMajor(i) == [row |-> i % NRows, col |-> i \div NRows]

\* line 129: position ii of the flattened (row-major) list of axes
PanelOf(i) == [row |-> i \div NCols, col |-> i % NCols]

\* artists added, in order, to the axes at position i of the flattened list
Draw(ax, i, artists) ==
    LET q == PanelOf(i)
    IN  [ax EXCEPT ![q.row][q.col] = @ \o artists]

\* UpdateGenPars without line 63: the robust value is not updated
UpdateGenPars_InputDirOnly(gp, jj, disk_pars) ==
    Ok(Put(gp, "base.input_dir", "./" \o jj))

\* UpdateGenPars updating the robust value only when the source gives one
UpdateGenPars_KeepsPreviousRobust(gp, jj, disk_pars) ==
    IF ~Has(disk_pars, "clean.bestfit.robust")
    THEN Ok(Put(gp, "base.input_dir", "./" \o jj))
    ELSE Ok(Put(Put(gp, "base.input_dir", "./" \o jj),
                "clean.robust", disk_pars["clean.bestfit.robust"]))

\* lines 61-63: the general parameters updated for source jj (line 61 has
\* taken effect when line 63 raises)
UpdateGenPars(gp, jj, disk_pars) ==
    IF ~Has(disk_pars, "clean.bestfit.robust")
    THEN [exc |-> "KeyError", val |-> Put(gp, "base.input_dir", "./" \o jj)]
    ELSE Ok(Put(Put(gp, "base.input_dir", "./" \o jj),
                "clean.robust", disk_pars["clean.bestfit.robust"]))

\* TempPath naming the general parameter file itself
TempPath_IsGenParF(gen_par_f) == gen_par_f

\* line 66: the temporary parameter file, next to the general one
TempPath(gen_par_f) == Join(Dirname(gen_par_f), <<"pars_gen_temp.json">>)

\* line 101: the text table of source jj
TablePath(m, jj) == Join(m["base.save_dir"], <<jj \o "_radial_profiles.txt">>)

\* SummaryPaths with the second figure saved under the first one's name
SummaryPaths_SameFile(m) ==
    <<Join(m["base.save_dir"], <<"survey_profile_summary.png">>),
      Join(m["base.save_dir"], <<"survey_profile_summary.png">>)>>

\* lines 162-163: the two summary figure files
SummaryPaths(m) ==
    <<Join(m["base.save_dir"], <<"survey_profile_summary.png">>),
      Join(m["base.save_dir"], <<"survey_profile_summary_unc.png">>)>>

\* OsRemove leaving the file in place
OsRemove_Keeps(files, path) == files

\* line 169: os.remove
OsRemove(files, path) == Del(files, path)

\* lines 85-97: the clean (and rave) profiles on the frank radial points
Interpolated(f, include_rave) ==
    LET c == f[1]
        r == f[2]
        k == f[3]
        Ic == Interp(k.r, c.r, c.I)
        Iec == Interp(k.r, c.r, c.Ie)
    IN  IF include_rave
        THEN LET Ir == Interp(k.r, r.r, r.I)
                 lo == Interp(k.r, r.r, r.Ie_lo)
                 hi == Interp(k.r, r.r, r.Ie_hi)
             IN  [Ic |-> Ic, Iec |-> Iec, Ir |-> Ir, Ier_lo |-> lo, Ier_hi |-> hi,
                  Is |-> <<[of |-> "clean", I |-> Ic], [of |-> "rave", I |-> Ir],
                           [of |-> "frank", I |-> k.I]>>,
                  Ies |-> << <<Iec, Iec>>, <<lo, hi>>, <<k.Ie, k.Ie>> >>]
        ELSE [Ic |-> Ic, Iec |-> Iec,
              Is |-> <<[of |-> "clean", I |-> Ic], [of |-> "frank", I |-> k.I]>>,
              Ies |-> << <<Iec, Iec>>, <<k.Ie, k.Ie>> >>]

Scaled(seq, a) == [k \in 1..Len(seq) |-> seq[k] * a]

\* profiles.T: one row per radial point
Transpose(columns) ==
    [k \in 1..Len(columns[1]) |-> [c \in 1..Len(columns) |-> columns[c][k]]]

\* lines 105-119: what np.savetxt writes for a source
TableContent(m, f, include_rave) ==
    LET it == Interpolated(f, include_rave)
        k == f[3]
        r_au == Scaled(k.r, m["base.dist"])
    IN  IF include_rave
        THEN [dist |-> m["base.dist"],
              columns |-> <<"r", "I_clean", "sigma_clean", "I_frank", "sigma_frank",
                            "I_rave", "sigma_lower_rave", "sigma_upper_rave">>,
              rows |-> Transpose(<<r_au, it.Ic, it.Iec, k.I, k.Ie,
                                   it.Ir, it.Ier_lo, it.Ier_hi>>)]
        ELSE [dist |-> m["base.dist"],
              columns |-> <<"r", "I_clean", "sigma_clean", "I_frank", "sigma_frank">>,
              rows |-> Transpose(<<r_au, it.Ic, it.Iec, k.I, k.Ie>>)]

\* NpTimes as the in-place product (a *= c)
NpTimes_InPlace(a, c) == [res |-> Scaled(a, c), arg |-> Scaled(a, c)]

\* the numpy expression a * c: a new array `res`; `arg` is the operand as the
\* expression leaves it
NpTimes(a, c) == [res |-> Scaled(a, c), arg |-> a]

\* the numpy expression a / c: a new array, each quotient held as
\* <<numerator, denominator>>; `arg` as for NpTimes
NpOver(a, c) == [res |-> [k \in 1..Len(a) |-> <<a[k], c>>], arg |-> a]

\* line 136: Jy per MJy
Mega == 1000000

\* lines 108, 114: the loaded profiles after the table was built (np.interp,
\* at lines 86-91, reads its arguments; rf * dist is the one expression on
\* a loaded array)
FitsAfterTable(f, m) ==
    [f EXCEPT ![3].r = NpTimes(@, m["base.dist"]).arg]

\* lines 134-146: the loaded profiles after a source was drawn: rf * dist, and
\* ll / 1e6 where ll is the loaded frank intensity itself (lines 93, 96)
FitsAfterDraw(f, m) ==
    [f EXCEPT ![3].r = NpTimes(@, m["base.dist"]).arg,
              ![3].I = NpOver(@, Mega).arg]

\* lines 130-132: colours and labels; list.append returns None, so with
\* include_rave both names are rebound to None
Styles(include_rave) ==
    IF include_rave
    THEN [none |-> TRUE, cols |-> <<>>, labs |-> <<>>]
    ELSE [none |-> FALSE, cols |-> <<"C1", "C2">>, labs |-> <<"clean", "frank">>]

Artist(kind, jj, c, label, of) ==
    [kind |-> kind, disk |-> jj, c |-> c, label |-> label, of |-> of]

\* lines 134-146: the curves of figure hh (with their bands when hh = 1)
RECURSIVE Curves(_, _, _, _, _)
Curves(hh, jj, Is, st, kk) ==
    IF kk > Len(Is) THEN <<>>
    ELSE (IF hh = 1
          THEN <<Artist("line", jj, st.cols[kk], st.labs[kk], Is[kk].of),
                 Artist("band", jj, st.cols[kk], "", Is[kk].of)>>
          ELSE <<Artist("line", jj, st.cols[kk], st.labs[kk], Is[kk].of)>>)
         \o Curves(hh, jj, Is, st, kk + 1)

\* lines 126-156: what one source adds to its panel of figure hh
PanelArtists(hh, i, jj, m, Is, st) ==
    Curves(hh, jj, Is, st, 1)
    \o <<Artist("axhline", jj, "k", "", ""),
         Artist("title", jj, "", ToString(m["frank.fstar"]) \o " uJy", "")>>
    \o (IF i = 0 THEN <<Artist("legend", jj, "", "", "")>> ELSE <<>>)

\* DrawSource wrapping around: the source at position i drawn in panel
\* i modulo the number of panels
DrawSource_Wraps(fg, i, jj, m, f, include_rave) ==
    LET it == Interpolated(f, include_rave)
        st == Styles(include_rave)
    IN  IF Len(it.Is) > 0 /\ st.none THEN Raise("TypeError")
        ELSE Ok(<<Draw(fg[1], i % NPanels, PanelArtists(0, i, jj, m, it.Is, st)),
                  Draw(fg[2], i % NPanels, PanelArtists(1, i, jj, m, it.Is, st))>>)

\* lines 122-156: the source at position i drawn on both figures
DrawSource(fg, i, jj, m, f, include_rave) ==
    LET it == Interpolated(f, include_rave)
        st == Styles(include_rave)
    IN  IF Len(it.Is) > 0 /\ i >= NPanels THEN Raise("IndexError")
        ELSE IF Len(it.Is) > 0 /\ st.none THEN Raise("TypeError")
        ELSE Ok(<<Draw(fg[1], i, PanelArtists(0, i, jj, m, it.Is, st)),
                  Draw(fg[2], i, PanelArtists(1, i, jj, m, it.Is, st))>>)

----------------------------------------------------------------------------
(* One call of model_setup on every combination of the stellar-flux inputs, *)
(* followed by a second call after one candidate the policy does not select *)
(* has been changed in the input files.                                     *)

NoExc == [name |-> "none", at |-> ""]

Recognised == {"custom", "SED", "MCMC"}

Policies == Recognised \cup {"sed", "mcmc", ""}

SaveDirs == {<<>>, <<"out">>}

Methods == {"Normal", "LogNormal"}

McmcPathOf(files, disk) ==
    Join(SaveDirOf(files[GenParF]["base.save_dir"], disk), <<"MCMC_results.json">>)

SetupInit ==
    \E policy \in Policies, custom \in Opt(0..MaxFlux), sed \in Opt(0..MaxFlux),
       mc \in McmcOpt(0..MaxFlux), sd \in SaveDirs, sh \in Opt({0, 1}),
       method \in Methods :
        /\ fs = (GenParF :> GenParsFile(sd, policy, sh, method)) @@
                (SourceParF :> [keys |-> <<Name(1)>>,
                                vals |-> (Name(1) :> SourceEntry(10, <<5>>, custom, sed))]) @@
                (Join(SaveDirOf(sd, Name(1)), <<"MCMC_results.json">>) :> McmcFile(mc))
        /\ opts = [base_parameter_filename |-> GenParF,
                   source_parameter_filename |-> SourceParF,
                   physical_parameter_filename |-> PhysParF,
                   disk |-> Name(1)]
        /\ pc = "setup_call"
        /\ ii = 0 /\ disk_names = <<>> /\ gen_pars = Unbound /\ source_pars = Unbound
        /\ model = Unbound /\ fits = Unbound /\ figs = <<>> /\ exc = NoExc
        /\ written = {} /\ run = 1 /\ built = EmptyDict /\ loaded = {}
        /\ hist = Unbound

SetupCall ==
    /\ pc = "setup_call"
    /\ LET r == model_setup(fs, opts)
       IN  model' = r.val /\ exc' = [name |-> r.exc, at |-> ""]
    /\ pc' = "setup_done"
    /\ UNCHANGED <<fs, opts, ii, disk_names, gen_pars, source_pars, fits, figs,
                   written, run, built, loaded, hist>>

\* the input files with candidate `which` set to `new`
WithCandidate(files, disk, which, new) ==
    LET srcf == files[SourceParF]
        e == srcf.vals[disk]
        mp == McmcPathOf(files, disk)
    IN  IF which = "MCMC"
        THEN Put(files, mp, IF new.entry THEN Put(files[mp], "fstar", new.median)
                            ELSE Del(files[mp], "fstar"))
        ELSE LET key == IF which = "custom" THEN "frank.custom_fstar"
                        ELSE "frank.SED_fstar"
                 e1 == IF new = <<>> THEN Del(e, key) ELSE Put(e, key, new[1])
             IN  Put(files, SourceParF, [srcf EXCEPT !.vals = Put(srcf.vals, disk, e1)])

SetupAgain ==
    /\ pc = "setup_done"
    /\ \E which \in Recognised \ {fs[GenParF]["frank.set_fstar"]} :
        /\ \/ which = "MCMC" /\ \E new \in McmcOpt(0..MaxFlux) :
                 fs' = WithCandidate(fs, opts.disk, which, new)
           \/ which # "MCMC" /\ \E new \in Opt(0..MaxFlux) :
                 fs' = WithCandidate(fs, opts.disk, which, new)
        /\ fs' # fs
        /\ hist' = [model |-> model, exc |-> exc, changed |-> which]
        /\ LET r == model_setup(fs', opts)
           IN  model' = r.val /\ exc' = [name |-> r.exc, at |-> ""]
    /\ pc' = "setup_redone"
    /\ UNCHANGED <<opts, ii, disk_names, gen_pars, source_pars, fits, figs,
                   written, run, built, loaded>>

SetupNext == SetupCall \/ SetupAgain

SetupSpec == SetupInit /\ [][SetupNext]_vars

SetupReturned == pc \in {"setup_done", "setup_redone"}

Policy == fs[GenParF]["frank.set_fstar"]

DiskPars == fs[SourceParF].vals[opts.disk]

Mcmc == fs[McmcPathOf(fs, opts.disk)]

HasMedian == Has(Mcmc, "fstar") /\ Mcmc["fstar"] # <<>>

\* C1: model_setup's stellar flux is chosen by frank.set_fstar alone: under
\* 'custom' it is custom_fstar, under 'SED' it is SED_fstar, under 'MCMC' it is
\* the median of the MCMC file's fstar entry (each in the result's unit), and a
\* second call after a change to a candidate the policy does not select ends
\* the same way with the same fstar.
C1_FstarByPolicy ==
    /\ SetupReturned =>
        /\ (Policy = "custom" /\ Has(DiskPars, "frank.custom_fstar")) =>
              (exc.name = "none" /\ model["frank.fstar"] = DiskPars["frank.custom_fstar"])
        /\ (Policy = "SED" /\ Has(DiskPars, "frank.SED_fstar")) =>
              (exc.name = "none" /\ model["frank.fstar"] = DiskPars["frank.SED_fstar"])
        /\ (Policy = "MCMC" /\ HasMedian) =>
              (exc.name = "none" /\ model["frank.fstar"] = Mcmc["fstar"][1] * MilliToMicro)
    /\ pc = "setup_redone" =>
        /\ exc.name = hist.exc.name
        /\ exc.name = "none" => model["frank.fstar"] = hist.model["frank.fstar"]

C1_Witness ==
    /\ pc = "setup_redone" /\ Policy = "SED" /\ hist.changed = "custom"
    /\ exc.name = "none" /\ model["frank.fstar"] = MaxFlux
    /\ Has(DiskPars, "frank.custom_fstar") /\ DiskPars["frank.custom_fstar"] = 0

\* C2: every value of frank.set_fstar other than 'custom', 'SED' and 'MCMC'
\* makes model_setup raise ValueError and return no configuration; the three
\* recognised values never raise it.
C2_ValueErrorIffUnrecognised ==
    SetupReturned =>
        /\ Policy \notin Recognised => (exc.name = "ValueError" /\ IsUnbound(model))
        /\ Policy \in Recognised => exc.name # "ValueError"

C2_Witness ==
    pc = "setup_done" /\ Policy = "sed" /\ exc.name = "ValueError" /\ IsUnbound(model)

\* C3: under 'MCMC' a results file without a stellar-flux median makes
\* model_setup return a configuration with fstar exactly 0; under 'custom' or
\* 'SED' a missing custom_fstar or SED_fstar raises KeyError and no
\* configuration is returned.
C3_MissingKeyRecoveredOnlyForMCMC ==
    SetupReturned =>
        /\ (Policy = "MCMC" /\ ~HasMedian) =>
              (exc.name = "none" /\ ~IsUnbound(model) /\ model["frank.fstar"] = 0)
        /\ (Policy = "custom" /\ ~Has(DiskPars, "frank.custom_fstar")) =>
              (exc.name = "KeyError" /\ IsUnbound(model))
        /\ (Policy = "SED" /\ ~Has(DiskPars, "frank.SED_fstar")) =>
              (exc.name = "KeyError" /\ IsUnbound(model))

C3_Witness ==
    /\ pc = "setup_done" /\ Policy = "MCMC" /\ ~Has(Mcmc, "fstar")
    /\ exc.name = "none" /\ model["frank.fstar"] = 0

----------------------------------------------------------------------------
(* The bulk results driver: input files *)

DistOf(d) == 10 + d

RobustOf(d) == <<5, 20, 10>>[(d % 3) + 1]

\* the saved profiles of source d.  The clean profile of every second source
\* and the rave profile of every third one are sampled on the radial points of
\* the frank solution; the others have a grid of their own.
CleanProfile(d) ==
    [r |-> IF d % 2 = 0 THEN <<1, 3, 5>> ELSE <<0, 2, 4>>,
     I |-> <<2 * d, 2 * d + 4, 2>>, Ie |-> <<2, 2, 4>>,
     grid |-> <<1, 2>>, V |-> <<d, 0>>]

RaveProfile(d) ==
    IF d % 3 = 0
    THEN [r |-> <<1, 3, 5>>, I |-> <<4 * d, d, 0>>, Ie_lo |-> <<4, 6, 8>>,
          Ie_hi |-> <<8, 10, 12>>, grid |-> <<1, 2>>, V |-> <<d, 1>>]
    ELSE [r |-> <<0, 4>>, I |-> <<4 * d, 0>>, Ie_lo |-> <<4, 8>>,
          Ie_hi |-> <<8, 12>>, grid |-> <<1, 2>>, V |-> <<d, 1>>]

FrankProfile(d) ==
    [r |-> <<1, 3, 5>>, I |-> <<d, 2 * d, 1>>, Ie |-> <<1, 1, 2>>,
     grid |-> <<1, 2>>, V |-> <<d, 2>>, sol |-> d]

Kinds == {"nokey", "noprofile", "norobust"}

\* the files of source d under its save directory; the source `bad` has the
\* defect `kind`
DiskFiles(d, bad, kind, sd, robust) ==
    LET dir == SaveDirOf(sd, Name(d))
        mc == IF d % 3 = 0 THEN NoEntry
              ELSE [entry |-> TRUE, median |-> <<d % (MaxFlux + 1)>>]
        f0 == (Join(dir, <<"MCMC_results.json">>) :> McmcFile(mc)) @@
              (Join(dir, <<"frank", "bestfit_frank_sol.obj">>) :> FrankProfile(d)) @@
              (Join(dir, <<"rave", ProfileName("rave", robust)>>) :> RaveProfile(d))
    IN  IF d = bad /\ kind = "noprofile" THEN f0
        ELSE f0 @@ (Join(dir, <<"clean", ProfileName("clean", robust)>>)
                      :> CleanProfile(d))

RECURSIVE DisksFiles(_, _, _, _, _)
DisksFiles(n, bad, kind, sd, robust) ==
    IF n = 0 THEN EmptyDict
    ELSE DisksFiles(n - 1, bad, kind, sd, robust) @@ DiskFiles(n, bad, kind, sd, robust)

SourceEntryOf(d, bad, kind) ==
    SourceEntry(DistOf(d),
                IF d = bad /\ kind = "norobust" THEN <<>> ELSE <<RobustOf(d)>>,
                IF d = bad /\ kind = "nokey" THEN <<>> ELSE <<d % (MaxFlux + 1)>>,
                IF d = bad /\ kind = "nokey" THEN <<>> ELSE <<(d + 1) % (MaxFlux + 1)>>)

SourceFile(n, bad, kind) ==
    [keys |-> [i \in 1..n |-> Name(i)],
     vals |-> [nm \in {Name(i) : i \in 1..n} |->
                 SourceEntryOf(CHOOSE i \in 1..n : Name(i) = nm, bad, kind)]]

Sizes == (0..MaxSmall) \cup ((NPanels - 1)..(NPanels + MaxOver))

BulkPolicies == {"custom", "SED", "MCMC", "sed"}

\* lines 15-16: the default options of main
DefaultFlags == [txt |-> TRUE, fig |-> TRUE, rave |-> FALSE]

\* the default options, each with one option changed, and the tables alone
\* with rave (short lists only; long lists are run with the default options)
Flags ==
    {DefaultFlags,
     [txt |-> FALSE, fig |-> TRUE, rave |-> FALSE],
     [txt |-> TRUE, fig |-> FALSE, rave |-> FALSE],
     [txt |-> TRUE, fig |-> TRUE, rave |-> TRUE],
     [txt |-> TRUE, fig |-> FALSE, rave |-> TRUE]}

----------------------------------------------------------------------------
(* The bulk results driver: main, step by step; a second run follows the    *)
(* first on the files it left, with the same source list or the reversed one *)

Init ==
    \E n \in Sizes, bad \in 0..(NPanels + MaxOver), kind \in Kinds,
       policy \in BulkPolicies, sd \in SaveDirs, fl \in Flags :
        /\ bad <= n
        /\ n > MaxSmall => fl = DefaultFlags
        /\ bad = 0 => kind = "nokey"
        /\ fs = (GenParF :> GenParsFile(sd, policy, <<>>, "Normal")) @@
                (SourceParF :> SourceFile(n, bad, kind)) @@
                DisksFiles(n, bad, kind, sd, 5)
        /\ opts = [gen_par_f |-> GenParF, source_par_f |-> SourceParF,
                   phys_par_f |-> PhysParF, profiles_txt |-> fl.txt,
                   profiles_fig |-> fl.fig, robust |-> 5, include_rave |-> fl.rave]
        /\ pc = "start"
        /\ ii = 0 /\ disk_names = <<>> /\ gen_pars = Unbound /\ source_pars = Unbound
        /\ model = Unbound /\ fits = Unbound /\ figs = <<>> /\ exc = NoExc
        /\ written = {} /\ run = 1 /\ built = EmptyDict /\ loaded = {}
        /\ hist = Unbound

jj == disk_names[ii + 1]

\* Unwind with the loop body's exceptions caught and the loop resumed
Unwind_Resumes(at) ==
    IF at \in {"loop", "setup", "load", "txt", "fig"} THEN "loop" ELSE "failed"

\* lines 46-171 hold no try statement: an exception raised at any position of
\* main leaves main at once
Unwind(at) == "failed"

Raised(e) == [name |-> e, at |-> pc]

\* lines 47-57
Start ==
    /\ pc = "start"
    /\ LET src == JsonLoad(fs, opts.source_par_f)
           gp == JsonLoad(fs, opts.gen_par_f)
       IN  IF src.exc # "none"
           THEN exc' = Raised(src.exc) /\ pc' = Unwind(pc)
                /\ UNCHANGED <<disk_names, figs, gen_pars, source_pars>>
           ELSE IF gp.exc # "none"
           THEN exc' = Raised(gp.exc) /\ pc' = Unwind(pc)
                /\ disk_names' = src.val.keys
                /\ figs' = <<Subplots, Subplots>>
                /\ UNCHANGED <<gen_pars, source_pars>>
           ELSE /\ disk_names' = src.val.keys
                /\ figs' = <<Subplots, Subplots>>
                /\ gen_pars' = gp.val
                /\ source_pars' = src.val.vals
                /\ pc' = "loop"
                /\ UNCHANGED exc
    /\ UNCHANGED <<fs, opts, ii, model, fits, written, run, built, loaded, hist>>

\* lines 59-68: the next source; the general parameters are updated and dumped
Update ==
    /\ pc = "loop" /\ ii < Len(disk_names)
    /\ LET r == UpdateGenPars(gen_pars, jj, source_pars[jj])
           gen_pars_current == TempPath(opts.gen_par_f)
       IN  /\ gen_pars' = r.val
           /\ IF r.exc # "none"
              THEN exc' = Raised(r.exc) /\ pc' = Unwind(pc)
                   /\ UNCHANGED <<fs, written>>
              ELSE /\ fs' = JsonDump(fs, gen_pars_current, r.val)
                   /\ written' = written \cup
                        {[kind |-> "json", path |-> gen_pars_current, disk |-> jj]}
                   /\ pc' = "setup"
                   /\ UNCHANGED exc
    /\ UNCHANGED <<opts, ii, disk_names, source_pars, model, fits, figs, run,
                   built, loaded, hist>>

\* lines 70-76
Setup ==
    /\ pc = "setup"
    /\ LET r == model_setup(fs, [base_parameter_filename |-> TempPath(opts.gen_par_f),
                                 source_parameter_filename |-> opts.source_par_f,
                                 physical_parameter_filename |-> opts.phys_par_f,
                                 disk |-> jj])
       IN  IF r.exc # "none"
           THEN exc' = Raised(r.exc) /\ pc' = Unwind(pc)
                /\ UNCHANGED <<model, built>>
           ELSE /\ model' = r.val
                /\ built' = Put(built, jj, r.val)
                /\ pc' = "load"
                /\ UNCHANGED exc
    /\ UNCHANGED <<fs, opts, ii, disk_names, gen_pars, source_pars, fits, figs,
                   written, run, loaded, hist>>

\* lines 78-97
Load ==
    /\ pc = "load"
    /\ LET r == load_bestfit_profiles(fs, model, opts.robust, opts.include_rave)
       IN  IF r.exc # "none"
           THEN exc' = Raised(r.exc) /\ pc' = Unwind(pc)
                /\ UNCHANGED <<fits, loaded>>
           ELSE /\ fits' = r.val
                /\ loaded' = loaded \cup {jj}
                /\ pc' = "txt"
                /\ UNCHANGED exc
    /\ UNCHANGED <<fs, opts, ii, disk_names, gen_pars, source_pars, model, figs,
                   written, run, built, hist>>

\* lines 100-119
Txt ==
    /\ pc = "txt"
    /\ IF opts.profiles_txt
       THEN LET ff == TablePath(model, jj)
            IN  /\ fs' = Put(fs, ff, TableContent(model, fits, opts.include_rave))
                /\ written' = written \cup {[kind |-> "txt", path |-> ff, disk |-> jj]}
                /\ fits' = FitsAfterTable(fits, model)
       ELSE UNCHANGED <<fs, written, fits>>
    /\ pc' = "fig"
    /\ UNCHANGED <<opts, ii, disk_names, gen_pars, source_pars, model, figs,
                   exc, run, built, loaded, hist>>

\* lines 122-156, and the loop's next index
Fig ==
    /\ pc = "fig"
    /\ IF opts.profiles_fig
       THEN LET r == DrawSource(figs, ii, jj, model, fits, opts.include_rave)
            IN  IF r.exc # "none"
                THEN exc' = Raised(r.exc) /\ pc' = Unwind(pc)
                     /\ UNCHANGED <<ii, figs, fits>>
                ELSE /\ figs' = r.val /\ ii' = ii + 1 /\ pc' = "loop"
                     /\ fits' = FitsAfterDraw(fits, model)
                     /\ UNCHANGED exc
       ELSE ii' = ii + 1 /\ pc' = "loop" /\ UNCHANGED <<figs, exc, fits>>
    /\ UNCHANGED <<fs, opts, disk_names, gen_pars, source_pars, model,
                   written, run, built, loaded, hist>>

\* line 59: the list is exhausted
LoopExit ==
    /\ pc = "loop" /\ ii = Len(disk_names)
    /\ pc' = "finish"
    /\ UNCHANGED <<fs, opts, ii, disk_names, gen_pars, source_pars, model, fits,
                   figs, exc, written, run, built, loaded, hist>>

\* lines 158-167: both summary figures are saved under the save directory of
\* the model built last; `model` is unbound when the loop body never ran
Finish ==
    /\ pc = "finish"
    /\ IF IsUnbound(model)
       THEN exc' = Raised("UnboundLocalError") /\ pc' = Unwind(pc)
            /\ UNCHANGED <<fs, written>>
       ELSE LET ff == SummaryPaths(model)
            IN  /\ fs' = Put(Put(fs, ff[1], [png |-> figs[1], suptitle |-> FALSE]),
                             ff[2], [png |-> figs[2], suptitle |-> TRUE])
                /\ written' = written \cup
                        {[kind |-> "png", path |-> ff[k], disk |-> ""] : k \in {1, 2}}
                /\ pc' = "remove"
                /\ UNCHANGED exc
    /\ UNCHANGED <<opts, ii, disk_names, gen_pars, source_pars, model, fits, figs,
                   run, built, loaded, hist>>

\* lines 169-171
Remove ==
    /\ pc = "remove"
    /\ fs' = OsRemove(fs, TempPath(opts.gen_par_f))
    /\ pc' = "returned"
    /\ UNCHANGED <<opts, ii, disk_names, gen_pars, source_pars, model, fits, figs,
                   exc, written, run, built, loaded, hist>>

RunEnded == pc \in {"returned", "failed"}

Tables == [p \in {w.path : w \in {x \in written : x.kind = "txt"}} |-> fs[p]]

Reverse(seq) == [k \in 1..Len(seq) |-> seq[Len(seq) + 1 - k]]

\* main is called again on the files the first run left; the source file lists
\* the same sources in the same or in the reversed order
Rerun ==
    /\ run = 1 /\ RunEnded
    /\ \E mode \in {"same", "reversed"} :
        /\ hist' = [mode |-> mode, built |-> built, tables |-> Tables,
                    exc |-> exc, pc |-> pc]
        /\ fs' = IF mode = "reversed"
                 THEN Put(fs, SourceParF,
                          [fs[SourceParF] EXCEPT !.keys = Reverse(@)])
                 ELSE fs
    /\ run' = 2 /\ pc' = "start" /\ exc' = NoExc /\ ii' = 0
    /\ disk_names' = <<>> /\ gen_pars' = Unbound /\ source_pars' = Unbound
    /\ model' = Unbound /\ fits' = Unbound /\ figs' = <<>>
    /\ written' = {} /\ built' = EmptyDict /\ loaded' = {}
    /\ UNCHANGED opts

Next ==
    \/ Start \/ Update \/ Setup \/ Load \/ Txt \/ Fig \/ LoopExit \/ Finish
    \/ Remove \/ Rerun

Spec == Init /\ [][Next]_vars

----------------------------------------------------------------------------
(* Properties of the bulk results driver *)

SourceList == fs[SourceParF].keys

NSources == Len(SourceList)

IsDefault ==
    opts.profiles_txt /\ opts.profiles_fig /\ ~opts.include_rave /\ opts.robust = 5

\* the exception ("none" if none) that setting up and loading source nm raises
\* on the given files, whatever was processed before
SourceExc(files, nm) ==
    LET u == UpdateGenPars(files[GenParF], nm, files[SourceParF].vals[nm])
    IN  IF u.exc # "none" THEN u.exc
        ELSE LET f1 == JsonDump(files, TempPath(GenParF), u.val)
                 r == model_setup(f1, [base_parameter_filename |-> TempPath(GenParF),
                                       source_parameter_filename |-> SourceParF,
                                       physical_parameter_filename |-> PhysParF,
                                       disk |-> nm])
             IN  IF r.exc # "none" THEN r.exc
                 ELSE load_bestfit_profiles(f1, r.val, opts.robust,
                                            opts.include_rave).exc

AllSourcesLoad == \A k \in 1..NSources : SourceExc(fs, SourceList[k]) = "none"

Pngs == {w \in written : w.kind = "png"}

Txts == {w \in written : w.kind = "txt"}

Jsons == {w \in written : w.kind = "json"}

OneTablePerSource ==
    /\ Cardinality(Txts) = NSources
    /\ \A k \in 1..NSources : \E w \in Txts : w.disk = SourceList[k]
    /\ \A w \in Txts : w.path \in DOMAIN fs

C5_TempFileRemoved ==
    /\ \A w \in Jsons : w.path = <<"work", "pars_gen_temp.json">>
    /\ pc = "returned" => <<"work", "pars_gen_temp.json">> \notin DOMAIN fs

C5_Witness ==
    /\ pc = "returned" /\ Cardinality(Jsons) = MaxSmall
    /\ <<"work", "pars_gen_temp.json">> \notin DOMAIN fs

\* the names at the list positions after position k (1-based)
After(k) == {disk_names[j] : j \in (k + 1)..Len(disk_names)}

\* C6: once an exception is raised while source k is processed the driver has
\* failed: it is not caught, no source after k has been set up, loaded or
\* written, and the driver neither saves nor returns its figures.
C6_ExceptionAbortsRun ==
    exc.name # "none" =>
        /\ pc = "failed"
        /\ \A nm \in After(ii + 1) :
             /\ nm \notin DOMAIN built
             /\ nm \notin loaded
             /\ \A w \in written : w.disk # nm
        /\ Pngs = {}

C6_Witness ==
    /\ pc = "failed" /\ exc.at = "load" /\ ii = 1 /\ Len(disk_names) = MaxSmall
    /\ DOMAIN built = {disk_names[1], disk_names[2]} /\ loaded = {disk_names[1]}

\* the axes of figure hh at position p of the row-major order
PanelAt(hh, p) == figs[hh][p \div NCols][p % NCols]

OwnRobust(nm) == fs[SourceParF].vals[nm]["clean.bestfit.robust"]

\* C8: when model_setup is about to read the temporary file it holds the
\* current source's best-fit robust value and input directory, and every
\* configuration built for a source s carries clean.robust equal to s's own
\* best-fit robust value and base.input_dir equal to './s'.
C8_ConfigCarriesOwnRobust ==
    /\ pc = "setup" =>
        /\ Has(fs[SourceParF].vals[jj], "clean.bestfit.robust")
        /\ fs[TempPath(GenParF)]["clean.robust"] = OwnRobust(jj)
        /\ fs[TempPath(GenParF)]["base.input_dir"] = "./" \o jj
    /\ \A nm \in DOMAIN built :
        /\ Has(fs[SourceParF].vals[nm], "clean.bestfit.robust")
        /\ built[nm]["clean.robust"] = OwnRobust(nm)
        /\ built[nm]["base.input_dir"] = "./" \o nm

C8_Witness ==
    /\ pc = "load" /\ ii = 1 /\ model = built[jj]
    /\ model["clean.robust"] = OwnRobust(jj)
    /\ OwnRobust(jj) # OwnRobust(disk_names[1])
    /\ built[disk_names[1]]["clean.robust"] = OwnRobust(disk_names[1])

\* C9: in a second run over the same sources, in the same or in the reversed
\* order, every source that both runs set up gets the same configuration, and
\* every table that both runs wrote has the same content, whatever was
\* processed before the source.
C9_NoLeakBetweenSources ==
    run = 2 =>
        /\ \A nm \in (DOMAIN built) \cap (DOMAIN hist.built) :
             built[nm] = hist.built[nm]
        /\ \A w \in Txts :
             w.path \in DOMAIN hist.tables => fs[w.path] = hist.tables[w.path]

C9_Witness ==
    /\ run = 2 /\ hist.mode = "reversed" /\ pc = "returned"
    /\ Len(disk_names) = MaxSmall /\ disk_names[1] = Name(MaxSmall)
    /\ \A k \in 1..MaxSmall : disk_names[k] \in DOMAIN hist.built
    /\ DOMAIN Tables = DOMAIN hist.tables /\ Cardinality(Txts) = MaxSmall

\* C10: a second run on the same input files ends as the first did and has
\* written the same per-source text tables with the same content.
C10_SecondRunSameTables ==
    (run = 2 /\ hist.mode = "same" /\ RunEnded) =>
        /\ Tables = hist.tables
        /\ exc.name = hist.exc.name
        /\ pc = hist.pc

C10_Witness ==
    /\ run = 2 /\ hist.mode = "same" /\ pc = "returned"
    /\ Cardinality(Txts) = MaxSmall /\ Tables = hist.tables

----------------------------------------------------------------------------
(* Properties of the per-source table *)

\* the table written for the source under way
TableNow == fs[(CHOOSE w \in Txts : w.disk = jj).path]

TableWritten == pc = "fig" /\ opts.profiles_txt

\* column c of table t, top to bottom
Column(t, c) == [k \in 1..Len(t.rows) |-> t.rows[k][c]]

\* the position of the column the header announces under `name`
ColumnOf(t, name) == CHOOSE c \in 1..Len(t.columns) : t.columns[c] = name

\* y is the value at x of the piecewise-linear function through the nodes
\* (xp, fp), continued by its end values outside the nodes
OnPolyline(x, y, xp, fp) ==
    /\ x <= xp[1] => y = fp[1]
    /\ x >= xp[Len(xp)] => y = fp[Len(xp)]
    /\ \A j \in 1..(Len(xp) - 1) :
         (xp[j] <= x /\ x <= xp[j + 1]) =>
            (y - fp[j]) * (xp[j + 1] - xp[j]) = (x - xp[j]) * (fp[j + 1] - fp[j])

\* column `name` of t is the profile (xp, fp) interpolated at the radii x
Resampled(t, name, x, xp, fp) ==
    /\ \E c \in 1..Len(t.columns) : t.columns[c] = name
    /\ \A k \in 1..Len(x) : OnPolyline(x[k], Column(t, ColumnOf(t, name))[k], xp, fp)

\* C11: the table written for a source has one row per frank radial point; its
\* radius column is the frank radius times the source's distance, its clean
\* columns (and with rave its rave columns) are the linear interpolation of
\* those profiles at the frank radii, its frank columns are the loaded frank
\* values, and the columns stand in the order the header announces.
C11_TableOnFrankGrid ==
    TableWritten =>
        LET t == TableNow
            c == fits[1]
            r == fits[2]
            k == fits[3]
        IN  /\ Len(t.rows) = Len(k.r)
            /\ \A i \in 1..Len(t.rows) : Len(t.rows[i]) = Len(t.columns)
            /\ SubSeq(t.columns, 1, 5) =
                   <<"r", "I_clean", "sigma_clean", "I_frank", "sigma_frank">>
            /\ t.columns = IF opts.include_rave
                           THEN <<"r", "I_clean", "sigma_clean", "I_frank",
                                  "sigma_frank", "I_rave", "sigma_lower_rave",
                                  "sigma_upper_rave">>
                           ELSE <<"r", "I_clean", "sigma_clean", "I_frank",
                                  "sigma_frank">>
            /\ \A i \in 1..Len(k.r) :
                   Column(t, 1)[i] = k.r[i] * fs[SourceParF].vals[jj]["base.dist"]
            /\ Resampled(t, "I_clean", k.r, c.r, c.I)
            /\ Resampled(t, "sigma_clean", k.r, c.r, c.Ie)
            /\ Column(t, ColumnOf(t, "I_frank")) = k.I
            /\ Column(t, ColumnOf(t, "sigma_frank")) = k.Ie
            /\ opts.include_rave =>
                   /\ Resampled(t, "I_rave", k.r, r.r, r.I)
                   /\ Resampled(t, "sigma_lower_rave", k.r, r.r, r.Ie_lo)
                   /\ Resampled(t, "sigma_upper_rave", k.r, r.r, r.Ie_hi)

\* a table with rave columns, of a source whose clean and rave grids both
\* differ from the frank grid
C11_Witness ==
    /\ TableWritten /\ opts.include_rave /\ jj = Name(1)
    /\ fits[1].r # fits[3].r /\ fits[2].r # fits[3].r
    /\ Len(TableNow.rows) = 3 /\ Len(TableNow.columns) = 8
    /\ TableNow.rows[1][2] # fits[1].I[1]

\* C12: when the clean (rave) radial grid equals the frank radial grid, the
\* clean (rave) intensity and uncertainty columns of the table are the loaded
\* clean (rave) values, point by point.
C12_OwnGridIsIdentity ==
    TableWritten =>
        LET t == TableNow
        IN  /\ fits[1].r = fits[3].r =>
                  /\ Column(t, 2) = fits[1].I
                  /\ Column(t, 3) = fits[1].Ie
            /\ (opts.include_rave /\ fits[2].r = fits[3].r) =>
                  /\ Column(t, 6) = fits[2].I
                  /\ Column(t, 7) = fits[2].Ie_lo
                  /\ Column(t, 8) = fits[2].Ie_hi

\* the table of a source whose rave grid is the frank grid, after the table of
\* a source whose clean grid is the frank grid
C12_Witness ==
    /\ TableWritten /\ opts.include_rave /\ ii = 2 /\ fits[2].r = fits[3].r
    /\ Column(TableNow, 6) = fits[2].I /\ fits[2].I[1] # fits[2].I[2]
    /\ LET t == fs[(CHOOSE w \in Txts : w.disk = disk_names[2]).path]
           c == CleanProfile(2)
       IN  c.r = FrankProfile(2).r /\ Column(t, 2) = c.I /\ Column(t, 3) = c.Ie

----------------------------------------------------------------------------
(* Properties of the output switches and of the curves drawn *)

\* C13 (as claimed): a summary figure file is written only when profiles_fig
\* is True and a per-source table only when profiles_txt is True; with a switch
\* False no file of that sort is written.
C13_SwitchesHonoured ==
    /\ ~opts.profiles_fig => Pngs = {}
    /\ ~opts.profiles_txt => Txts = {}

\* a run with profiles_fig False that has returned having saved both summary
\* figure files, every panel of them blank
C13_Witness ==
    /\ pc = "returned" /\ ~opts.profiles_fig /\ opts.profiles_txt
    /\ Cardinality(Pngs) = 2 /\ Cardinality(Txts) = NSources
    /\ \A w \in Pngs :
         /\ w.path \in DOMAIN fs
         /\ \A row \in 0..(NRows - 1) : \A col \in 0..(NCols - 1) :
                fs[w.path].png[row][col] = <<>>

IsLine(a) == a.kind = "line"

\* the curves (plot lines) of the axes at position p of figure hh
LinesAt(hh, p) == SelectSeq(PanelAt(hh, p), IsLine)

\* line 130 (and 132): the colour and the legend label that go with a method
MethodColour(method) ==
    IF method = "clean" THEN "C1" ELSE IF method = "frank" THEN "C2" ELSE "C3"

\* C14 (as claimed): with the figure enabled over 1 <= N <= 20 sources that
\* all load, the driver returns, and every source's panel of both figures
\* shows, with include_rave, the three curves clean, rave and frank, and
\* without it the two curves clean and frank, each with the colour and the
\* legend label of the method it was computed by.
C14_CurvesPerMethod ==
    (RunEnded /\ opts.profiles_fig /\ NSources >= 1 /\ NSources <= NPanels
       /\ AllSourcesLoad) =>
        /\ pc = "returned"
        /\ \A hh \in 1..2 : \A p \in 0..(NSources - 1) :
             LET ls == LinesAt(hh, p)
             IN  /\ [k \in 1..Len(ls) |-> ls[k].of] =
                        IF opts.include_rave THEN <<"clean", "rave", "frank">>
                        ELSE <<"clean", "frank">>
                 /\ \A k \in 1..Len(ls) :
                        /\ ls[k].label = ls[k].of
                        /\ ls[k].c = MethodColour(ls[k].of)

\* a run with include_rave that failed drawing the first curve of its first
\* source, the source's table written and no panel drawn
C14_Witness ==
    /\ pc = "failed" /\ opts.include_rave /\ opts.profiles_fig
    /\ exc = [name |-> "TypeError", at |-> "fig"] /\ ii = 0
    /\ Cardinality(Txts) = 1 /\ Len(TableNow.columns) = 8
    /\ PanelAt(1, 0) = <<>> /\ PanelAt(2, 0) = <<>> /\ Pngs = {}

----------------------------------------------------------------------------
(* radial_pipeline.extract_clean_profile: the east and west profiles of the  *)
(* clean image and their combination.  Angles are whole degrees; an image is *)
(* [r, at], `at` giving for every direction (degrees, 0..359) the intensity  *)
(* and the uncertainty along it at the radii r.                              *)

\* line 178: the west wedge is half a turn from the east one [deg]
HalfTurn == 180

\* directions repeat after a full turn
FullTurn == 2 * HalfTurn

\* numpy.linspace(start, stop, num): num = 1 gives the start alone
Linspace(start, stop, num) ==
    [k \in 1..num |->
        IF num = 1 THEN start ELSE start + ((k - 1) * (stop - start)) \div (num - 1)]

\* lines 173-176: the east wedge
PhisE(PA, phic_deg, Nphi) == Linspace(PA - phic_deg, PA + phic_deg, Nphi)

\* line 178: the west wedge
PhisW(phis_E, PA) == [k \in 1..Len(phis_E) |-> phis_E[k] + HalfTurn]

RECURSIVE SumSeq(_)
SumSeq(q) == IF q = <<>> THEN 0 ELSE Head(q) + SumSeq(Tail(q))

\* (image_radial_profile.radial_profile_from_image is not among the sources
\* at hand: it is modelled as the average, at each radius, over the directions
\* of the wedge)
radial_profile_from_image(image, phis) ==
    LET mean(field, i) ==
            SumSeq([k \in 1..Len(phis) |-> image.at[phis[k] % FullTurn][field][i]])
                \div Len(phis)
    IN  [r |-> image.r,
         I |-> [i \in 1..Len(image.r) |-> mean("I", i)],
         I_err |-> [i \in 1..Len(image.r) |-> mean("Ie", i)]]

\* the largest whole number whose square is at most n
ISqrt(n) == CHOOSE k \in 0..n : k * k <= n /\ (k + 1) * (k + 1) > n

\* numpy.hypot
Hypot(a, b) == ISqrt(a * a + b * b)

\* Combine with the side uncertainties averaged (not added in quadrature)
Combine_MeanOfErrors(E, W) ==
    [r |-> W.r,
     I |-> [i \in 1..Len(W.r) |-> (E.I[i] + W.I[i]) \div 2],
     I_err |-> [i \in 1..Len(W.r) |-> (E.I_err[i] + W.I_err[i]) \div 2]]

\* line 189: the average of the east and west profiles
Combine(E, W) ==
    [r |-> W.r,
     I |-> [i \in 1..Len(W.r) |-> (E.I[i] + W.I[i]) \div 2],
     I_err |-> [i \in 1..Len(W.r) |-> Hypot(E.I_err[i], W.I_err[i]) \div 2]]

\* lines 165-189; phic_deg is the critical angle find_phic gives for the
\* source's inclination
extract_clean_profile(m, phic_deg, clean_image) ==
    LET phis_E == PhisE(m["base.geom"].PA, phic_deg, m["clean.Nphi"])
        phis_W == PhisW(phis_E, m["base.geom"].PA)
        E == radial_profile_from_image(clean_image, phis_E)
        W == radial_profile_from_image(clean_image, phis_W)
    IN  [phis_E |-> phis_E, phis_W |-> phis_W, E |-> E, W |-> W,
         profile |-> Combine(E, W)]

PAs == {0, 40, 170}

Phics == {30, 60}

Nphis == 1..MaxNphi

SideIs == {<<0, 2>>, <<2, 4>>, <<4, 0>>}

\* (east, west) uncertainties whose quadrature sum is a whole, even number
SideErrs == {<<0, 0>>, <<6, 8>>, <<0, 4>>, <<16, 12>>}

\* an image with one profile on the half plane around direction PA and another
\* on the opposite half plane
TwoSided(PA, IE, IW, errs) ==
    [r |-> <<1, 2>>,
     at |-> [phi \in 0..(FullTurn - 1) |->
               IF ((phi - PA + FullTurn + HalfTurn \div 2) % FullTurn) < HalfTurn
               THEN [I |-> IE, Ie |-> <<errs[1], errs[2]>>]
               ELSE [I |-> IW, Ie |-> <<errs[2], errs[1]>>]]]

ExtractInit ==
    \E PA \in PAs, phic \in Phics, n \in Nphis, IE \in SideIs, IW \in SideIs,
       errs \in SideErrs :
        /\ opts = [model |-> Put(Put(EmptyDict, "base.geom",
                                     [inc |-> 30, PA |-> PA, dRA |-> 0, dDec |-> 0]),
                                 "clean.Nphi", n),
                   phic_deg |-> phic,
                   clean_image |-> TwoSided(PA, IE, IW, errs)]
        /\ pc = "extract_call"
        /\ fs = EmptyDict
        /\ ii = 0 /\ disk_names = <<>> /\ gen_pars = Unbound /\ source_pars = Unbound
        /\ model = Unbound /\ fits = Unbound /\ figs = <<>> /\ exc = NoExc
        /\ written = {} /\ run = 1 /\ built = EmptyDict /\ loaded = {}
        /\ hist = Unbound

ExtractCall ==
    /\ pc = "extract_call"
    /\ fits' = extract_clean_profile(opts.model, opts.phic_deg, opts.clean_image)
    /\ pc' = "extract_done"
    /\ UNCHANGED <<fs, opts, ii, disk_names, gen_pars, source_pars, model, figs,
                   exc, written, run, built, loaded, hist>>

ExtractNext == ExtractCall

ExtractSpec == ExtractInit /\ [][ExtractNext]_vars

Extracted == pc = "extract_done"

ThePA == opts.model["base.geom"].PA

TheNphi == opts.model["clean.Nphi"]

\* the wedge is symmetric about the direction c
CentredOn(phis, c) ==
    \A k \in 1..Len(phis) : phis[k] + phis[Len(phis) + 1 - k] = 2 * c

\* the west wedge is the east one turned by half a turn, angle by angle; the
\* two sides are the extractions over the two wedges; their combination is,
\* point by point, the mean of the intensities and half the quadrature sum of
\* the uncertainties
TurnedAndCombined ==
    /\ Len(fits.phis_E) = TheNphi /\ Len(fits.phis_W) = TheNphi
    /\ \A k \in 1..TheNphi : fits.phis_W[k] - fits.phis_E[k] = 180
    /\ fits.E = radial_profile_from_image(opts.clean_image, fits.phis_E)
    /\ fits.W = radial_profile_from_image(opts.clean_image, fits.phis_W)
    /\ Len(fits.profile.I) = Len(fits.E.I) /\ Len(fits.profile.I_err) = Len(fits.E.I)
    /\ \A i \in 1..Len(fits.E.I) :
         /\ 2 * fits.profile.I[i] = fits.E.I[i] + fits.W.I[i]
         /\ (2 * fits.profile.I_err[i]) * (2 * fits.profile.I_err[i]) =
               fits.E.I_err[i] * fits.E.I_err[i] + fits.W.I_err[i] * fits.W.I_err[i]
    /\ fits.E.I = fits.W.I => fits.profile.I = fits.E.I

\* C15 (as claimed): the east wedge is centred on the position angle, the
\* west wedge is the east wedge shifted by 180 degrees with as many angles,
\* and the two sides are combined point by point: the mean of the intensities,
\* half the root of the sum of the squared uncertainties.
C15_CentredWedgesMean ==
    Extracted => (CentredOn(fits.phis_E, ThePA) /\ TurnedAndCombined)

\* C15 (amended): as claimed, the east wedge being centred on the position
\* angle when it has at least two angles; with Nphi = 1 it is the single
\* direction PA - phic.
C15_WedgesMean ==
    Extracted =>
        /\ TheNphi >= 2 => CentredOn(fits.phis_E, ThePA)
        /\ TheNphi = 1 => fits.phis_E = <<ThePA - opts.phic_deg>>
        /\ fits.phis_E[1] = ThePA - opts.phic_deg
        /\ TheNphi >= 2 => fits.phis_E[TheNphi] = ThePA + opts.phic_deg
        /\ TurnedAndCombined

\* an extraction over wedges of four angles, the west one crossing the full
\* turn, from an image whose sides differ in intensity and in uncertainty
C15_Witness ==
    /\ Extracted /\ TheNphi = 4 /\ ThePA = 170 /\ opts.phic_deg = 60
    /\ fits.phis_E = <<110, 150, 190, 230>> /\ fits.phis_W = <<290, 330, 370, 410>>
    /\ fits.E.I = <<0, 2>> /\ fits.W.I = <<4, 0>> /\ fits.profile.I = <<2, 1>>
    /\ fits.E.I_err = <<6, 8>> /\ fits.W.I_err = <<8, 6>>
    /\ fits.profile.I_err = <<5, 5>>

----------------------------------------------------------------------------
(* The consumers of a set of loaded profiles: the loop body of the bulk      *)
(* driver and the two comparison figure builders of plot.py, applied in any  *)
(* order to the profiles loaded for one source.                              *)

\* frank.utilities.jy_convert(x, 'sterad_arcsec2'): the values in the new
\* unit, as a new array
jy_convert(a, unit) == [res |-> [unit |-> unit, of |-> a], arg |-> a]

\* plot.py lines 77-89: the three brightness curves with their bands
ProfileCurves(f) ==
    LET rs == <<f[1].r, f[2].r, f[3].r>>
        Is_jy_sr == <<f[1].I, f[2].I, f[3].I>>
        Ies_jy_sr == << <<f[1].Ie, f[1].Ie>>, <<f[2].Ie_lo, f[2].Ie_hi>>,
                        <<f[3].Ie, f[3].Ie>> >>
        cols == <<"C1", "C3", "C2">>
        labs == <<"clean", "rave", "frank">>
    IN  [k \in 1..3 |->
            [c |-> cols[k], label |-> labs[k], r |-> rs[k],
             I |-> jy_convert(Is_jy_sr[k], "sterad_arcsec2").res,
             lo |-> jy_convert(Ies_jy_sr[k][1], "sterad_arcsec2").res,
             hi |-> jy_convert(Ies_jy_sr[k][2], "sterad_arcsec2").res]]

\* plot.py lines 174-175: the three visibility curves; `grid` is the grid of
\* the tuple unpacked last
VisCurves(f) ==
    [k \in 1..3 |-> [u |-> NpOver(f[3].grid, Mega).res,
                     V |-> NpTimes(f[k].V, 1000).res]]

\* plot.py lines 59-89, 125, 174-183: the loaded profiles after
\* profile_comparison_figure
FitsAfterProfileFigure(f) ==
    [f EXCEPT ![1].I = jy_convert(@, "sterad_arcsec2").arg,
              ![1].Ie = jy_convert(@, "sterad_arcsec2").arg,
              ![2].I = jy_convert(@, "sterad_arcsec2").arg,
              ![2].Ie_lo = jy_convert(@, "sterad_arcsec2").arg,
              ![2].Ie_hi = jy_convert(@, "sterad_arcsec2").arg,
              ![3].I = jy_convert(@, "sterad_arcsec2").arg,
              ![3].Ie = jy_convert(@, "sterad_arcsec2").arg,
              ![3].grid = NpOver(@, Mega).arg,
              ![1].V = NpTimes(@, 1000).arg,
              ![2].V = NpTimes(@, 1000).arg,
              ![3].V = NpTimes(@, 1000).arg]

\* plot.py lines 281-287, 311-315: the extent of the rave image and the
\* profiles swept into images (frank.utilities.sweep_profile builds a new
\* image from a profile)
SweptImages(f, m) ==
    [rave_im_xmax |-> <<m["rave.pixel_scale"] * Len(f[2].r), 2>>,
     rave_image |-> jy_convert([r |-> f[2].r, I |-> f[2].I], "sterad_arcsec2").res,
     frank_image |-> jy_convert([r |-> f[3].r, I |-> f[3].I], "sterad_arcsec2").res]

\* plot.py lines 251-316: the loaded profiles after image_comparison_figure
\* (no expression of it has a loaded array as its operand)
FitsAfterImageFigure(f) == f

Consumers == {"driver", "profile_figure", "image_figure"}

FitsInit ==
    \E d \in 1..MaxSmall, policy \in Recognised, sd \in SaveDirs, rave \in BOOLEAN :
        LET files == (GenParF :> GenParsFile(sd, policy, <<>>, "Normal")) @@
                     (SourceParF :> SourceFile(MaxSmall, 0, "nokey")) @@
                     DisksFiles(MaxSmall, 0, "nokey", sd, 5)
            m == model_setup(files, [base_parameter_filename |-> GenParF,
                                     source_parameter_filename |-> SourceParF,
                                     physical_parameter_filename |-> PhysParF,
                                     disk |-> Name(d)]).val
            f == load_bestfit_profiles(files, m, 5, TRUE).val
        IN  /\ fs = files
            /\ opts = [disk |-> Name(d), include_rave |-> rave]
            /\ model = m
            /\ fits = f
            /\ hist = [loaded |-> f]
            /\ pc = "fits_loaded"
            /\ figs = EmptyDict
            /\ ii = 0 /\ disk_names = <<>> /\ gen_pars = Unbound
            /\ source_pars = Unbound /\ exc = NoExc
            /\ written = {} /\ run = 1 /\ built = EmptyDict /\ loaded = {}

\* bulk_pipeline_results.py lines 80-156 on the loaded profiles
DriverUse ==
    /\ pc = "fits_loaded" /\ "driver" \notin DOMAIN figs
    /\ figs' = Put(figs, "driver",
                   [table |-> TableContent(model, fits, opts.include_rave),
                    xs |-> NpTimes(fits[3].r, model["base.dist"]).res,
                    ys |-> NpOver(fits[3].I, Mega).res])
    /\ fits' = FitsAfterDraw(FitsAfterTable(fits, model), model)
    /\ UNCHANGED <<fs, opts, pc, ii, disk_names, gen_pars, source_pars, model,
                   exc, written, run, built, loaded, hist>>

\* plot.profile_comparison_figure(fits, model)
ProfileFigureUse ==
    /\ pc = "fits_loaded" /\ "profile_figure" \notin DOMAIN figs
    /\ figs' = Put(figs, "profile_figure",
                   [curves |-> ProfileCurves(fits), vis |-> VisCurves(fits)])
    /\ fits' = FitsAfterProfileFigure(fits)
    /\ UNCHANGED <<fs, opts, pc, ii, disk_names, gen_pars, source_pars, model,
                   exc, written, run, built, loaded, hist>>

\* plot.image_comparison_figure(fits, model)
ImageFigureUse ==
    /\ pc = "fits_loaded" /\ "image_figure" \notin DOMAIN figs
    /\ figs' = Put(figs, "image_figure", SweptImages(fits, model))
    /\ fits' = FitsAfterImageFigure(fits)
    /\ UNCHANGED <<fs, opts, pc, ii, disk_names, gen_pars, source_pars, model,
                   exc, written, run, built, loaded, hist>>

FitsNext == DriverUse \/ ProfileFigureUse \/ ImageFigureUse

FitsSpec == FitsInit /\ [][FitsNext]_vars

\* C16: after the bulk driver's loop body or a comparison figure builder has
\* used the loaded profiles, every radius, intensity, uncertainty, grid and
\* visibility sequence of them holds the values it had when loaded.
C16_FitsNeverModified ==
    pc = "fits_loaded" =>
        \A k \in 1..3 : \A field \in DOMAIN hist.loaded[k] :
            fits[k][field] = hist.loaded[k][field]

\* all three consumers have used the profiles, and what they made of them
\* differs from the profiles
C16_Witness ==
    /\ pc = "fits_loaded" /\ DOMAIN figs = Consumers
    /\ figs["driver"].xs # fits[3].r
    /\ Len(figs["driver"].table.rows) = Len(fits[3].r)
    /\ figs["profile_figure"].curves[2].I.of = fits[2].I
    /\ figs["profile_figure"].vis[1].V # fits[1].V
    /\ fits = hist.loaded

----------------------------------------------------------------------------
(* Properties of the configurations model_setup returns to the driver *)

GivenSaveDir == fs[GenParF]["base.save_dir"]

\* C17: every configuration model_setup returns has clean_dir, rave_dir and
\* frank_dir equal to its save directory followed by 'clean', 'rave' and
\* 'frank'; the save directory is the one of the general parameters when that
\* is not empty, and otherwise 'disks/<disk>' under the directory of the
\* general parameter file, so that the three directories share one parent and
\* those of different disks differ when the save directory is defaulted.
C17_DerivedDirs ==
    \A nm \in DOMAIN built :
        LET m == built[nm]
        IN  /\ m["base.clean_dir"] = m["base.save_dir"] \o <<"clean">>
            /\ m["base.rave_dir"] = m["base.save_dir"] \o <<"rave">>
            /\ m["base.frank_dir"] = m["base.save_dir"] \o <<"frank">>
            /\ GivenSaveDir # <<>> => m["base.save_dir"] = GivenSaveDir
            /\ GivenSaveDir = <<>> => m["base.save_dir"] = <<"work", "disks", nm>>
            /\ GivenSaveDir = <<>> =>
                  \A other \in (DOMAIN built) \ {nm} :
                     /\ built[other]["base.save_dir"] # m["base.save_dir"]
                     /\ built[other]["base.clean_dir"] # m["base.clean_dir"]
                     /\ built[other]["base.rave_dir"] # m["base.rave_dir"]
                     /\ built[other]["base.frank_dir"] # m["base.frank_dir"]

\* configurations of several disks built with the save directory defaulted
C17_Witness ==
    /\ pc = "returned" /\ GivenSaveDir = <<>>
    /\ Cardinality(DOMAIN built) = MaxSmall
    /\ built[Name(2)]["base.rave_dir"] = <<"work", "disks", "S2", "rave">>
    /\ built[Name(1)]["base.rave_dir"] = <<"work", "disks", "S1", "rave">>

----------------------------------------------------------------------------
(* Properties of a run that fails *)

\* the first NPanels sources of the list all load
FirstPanelsLoad ==
    \A k \in 1..NPanels : SourceExc(fs, SourceList[k]) = "none"

\* every artist of both figures is in the panel of its own source
NoWrap ==
    \A hh \in 1..2 : \A p \in 0..(NPanels - 1) :
        \A k \in 1..Len(PanelAt(hh, p)) : PanelAt(hh, p)[k].disk = disk_names[p + 1]

\* C18: with more than 20 sources and the figure enabled the run never
\* returns and writes no summary figure; nothing is truncated or wrapped: every
\* panel holds the curves of its own source only, and, the first 20 sources
\* processed, the 21st is set up and loaded and then fails with an index error
\* at its drawing step.
C18_TwentyFirstSourceFails ==
    (NSources > NPanels /\ opts.profiles_fig) =>
        /\ pc # "returned" /\ pc # "finish" /\ pc # "remove"
        /\ Pngs = {}
        /\ ii <= NPanels
        /\ figs # <<>> => NoWrap
        /\ (RunEnded /\ FirstPanelsLoad
              /\ SourceExc(fs, SourceList[NPanels + 1]) = "none") =>
               /\ pc = "failed" /\ exc = [name |-> "IndexError", at |-> "fig"]
               /\ ii = NPanels
               /\ disk_names[NPanels + 1] \in loaded
               /\ PanelAt(1, NPanels - 1) # <<>>

\* a run over 21 sources failed at the drawing step of the 21st, whose table
\* was written, the 20 panels holding the first 20 sources
C18_Witness ==
    /\ pc = "failed" /\ NSources = NPanels + 1 /\ ii = NPanels
    /\ exc = [name |-> "IndexError", at |-> "fig"]
    /\ Cardinality(Txts) = NPanels + 1 /\ Pngs = {}
    /\ PanelAt(2, NPanels - 1)[1].disk = disk_names[NPanels]
    /\ PanelAt(2, 0)[1].disk = disk_names[1]

LoopBody == {"loop", "setup", "load", "txt", "fig"}

FailedAtSource == pc = "failed" /\ exc.at \in LoopBody

TempFile == <<"work", "pars_gen_temp.json">>

Last(p) == p[Len(p)]

\* the tables of the sources before the failing one are on disk as written,
\* this run has written nothing for the sources after it, no table of theirs
\* is on disk in a first run, and no summary figure file is on disk
TablesBeforeNoneAfter ==
    /\ opts.profiles_txt =>
          \A j \in 1..ii : \E w \in Txts :
             /\ w.disk = disk_names[j] /\ w.path \in DOMAIN fs
             /\ Len(fs[w.path].rows) > 0
    /\ \A nm \in After(ii + 1) :
          /\ \A w \in written : w.disk # nm
          /\ run = 1 => \A p \in DOMAIN fs : Last(p) # nm \o "_radial_profiles.txt"
    /\ Pngs = {}
    /\ \A p \in DOMAIN fs :
          Last(p) \notin {"survey_profile_summary.png", "survey_profile_summary_unc.png"}

\* C19 (as claimed): when the run fails while processing source k, the tables
\* of the sources before k exist, no table exists for the sources after k, no
\* summary figure file has been written, and the temporary configuration file
\* exists on disk.
C19_PartialOutputsAndTempFile ==
    FailedAtSource => (TablesBeforeNoneAfter /\ TempFile \in DOMAIN fs)

\* C19 (amended): as claimed, except that the temporary file exists only if
\* it has been written: when the first source fails at line 63 (no best-fit
\* robust value), before the first dump, this run has written no file and, in
\* a first run, there is no temporary file; in every other failure the
\* temporary file exists and holds the configuration dumped last.
C19_PartialOutputsLeft ==
    FailedAtSource =>
        /\ TablesBeforeNoneAfter
        /\ (exc.at = "loop" /\ ii = 0) =>
              /\ written = {}
              /\ run = 1 => TempFile \notin DOMAIN fs
        /\ ~(exc.at = "loop" /\ ii = 0) =>
              /\ TempFile \in DOMAIN fs
              /\ Jsons # {}
              /\ fs[TempFile]["base.input_dir"] =
                    "./" \o disk_names[IF exc.at = "loop" THEN ii ELSE ii + 1]
        /\ (run = 1 /\ Jsons = {}) => TempFile \notin DOMAIN fs

\* a run failed at the loading step of its last source: the tables of the
\* sources before it and the temporary file, dumped for it, are on disk
C19_Witness ==
    /\ FailedAtSource /\ exc.at = "load" /\ run = 1
    /\ Len(disk_names) = MaxSmall /\ ii = MaxSmall - 1
    /\ Cardinality(Txts) = MaxSmall - 1
    /\ TempFile \in DOMAIN fs /\ fs[TempFile]["base.input_dir"] = "./" \o jj

----------------------------------------------------------------------------
(* Properties of model_setup's fit method *)

\* C20: a configuration model_setup returns whose frank.scale_heights is not
\* null has frank.method 'Normal' and frank.max_iter 2000, whatever the
\* general parameter file asked for; when frank.scale_heights is null both are
\* as the general parameter file gives them.
C20_NormalEnforced ==
    (SetupReturned /\ exc.name = "none") =>
        /\ model["frank.scale_heights"] = fs[GenParF]["frank.scale_heights"]
        /\ model["frank.scale_heights"] # <<>> =>
              (model["frank.method"] = "Normal" /\ model["frank.max_iter"] = 2000)
        /\ model["frank.scale_heights"] = <<>> =>
              /\ model["frank.method"] = fs[GenParF]["frank.method"]
              /\ model["frank.max_iter"] = fs[GenParF]["frank.max_iter"]

\* a LogNormal fit with 1000 iterations asked for together with a scale
\* height of 0: the configuration returned has Normal and 2000
C20_Witness ==
    /\ pc = "setup_done" /\ exc.name = "none"
    /\ fs[GenParF]["frank.scale_heights"] = <<0>>
    /\ fs[GenParF]["frank.method"] = "LogNormal" /\ fs[GenParF]["frank.max_iter"] = 1000
    /\ model["frank.method"] = "Normal" /\ model["frank.max_iter"] = 2000

----------------------------------------------------------------------------
(* The three places that name the files of a rave fit: process_rave_fit      *)
(* (radial_pipeline.py) and the residual images read by the two comparison   *)
(* figure builders (plot.py), run in any order on one configuration.  A file *)
(* of a rave fit carries the fit it belongs to, <<disk, variant, N>>.        *)

\* radial_pipeline.py lines 234-242
ProcessRaveVariant(m) ==
    LET rave_str == IF m["clean.robust"] = 5 THEN "1" ELSE "2"
        raveN == IF m["base.disk"] = "HD161868" /\ rave_str = "2" THEN 7 ELSE 5
    IN  [rave_str |-> rave_str, raveN |-> raveN]

\* plot.py lines 99-106
ProfileFigureVariant(m) ==
    LET rave_str == IF m["clean.robust"] = 5 THEN "1" ELSE "2"
        raveN == IF m["base.disk"] = "HD161868" /\ rave_str = "2" THEN 7 ELSE 5
    IN  [rave_str |-> rave_str, raveN |-> raveN]

\* ImageFigureVariant choosing the variant by base.bestfit_robust, the robust
\* value the builder names its clean images by
ImageFigureVariant_ByBestfitRobust(m) ==
    LET rave_str == IF m["base.bestfit_robust"] = 5 THEN "1" ELSE "2"
        raveN == IF m["base.disk"] = "HD161868" /\ rave_str = "2" THEN 7 ELSE 5
    IN  [rave_str |-> rave_str, raveN |-> raveN]

\* plot.py lines 290-297
ImageFigureVariant(m) ==
    LET rave_str == IF m["clean.robust"] = 5 THEN "1" ELSE "2"
        raveN == IF m["base.disk"] = "HD161868" /\ rave_str = "2" THEN 7 ELSE 5
    IN  [rave_str |-> rave_str, raveN |-> raveN]

\* the part of the file names the three places share:
\* '{disk}-{rave_str}_inc=90_N={raveN}'
FitStem(m, v) ==
    m["base.disk"] \o "-" \o v.rave_str \o "_inc=90_N=" \o ToString(v.raveN)

\* radial_pipeline.py lines 244-250
FitPath(m, v) ==
    Join(m["base.rave_dir"],
         <<FitStem(m, v) \o "_radial_" \o ToString(m["rave.pixel_scale"])
              \o "0arcsec.npy">>)

\* plot.py lines 107-112 and 298-303
ResidPath(m, v) ==
    Join(m["base.rave_dir"], <<FitStem(m, v) \o "_2Dresiduals.npy">>)

Minus(a, b) == [k \in 1..Len(a) |-> a[k] - b[k]]

\* radial_pipeline.py lines 254-268: the profile saved from the fit read
RaveProfileFrom(fit_path, fit) ==
    [from |-> fit_path[Len(fit_path)], fit |-> fit.fit, r |-> fit.r,
     I |-> jy_convert(fit.I, "arcsec2_sterad").res,
     Ie_lo |-> jy_convert(Minus(fit.I, fit.lo), "arcsec2_sterad").res,
     Ie_hi |-> jy_convert(Minus(fit.hi, fit.I), "arcsec2_sterad").res]

RaveDisks == {"HD161868", "HD161868B", "S1"}

\* robust values, in tenths: 0.5, 2.0, 1.0, 0.0, -0.5
RaveRobusts == {5, 20, 10, 0, -5}

RaveVariants == {"1", "2"}

RaveNs == {5, 7}

\* the configuration the three places are given
RaveModel(disk, robust, bestfit, sd) ==
    LET m0 == ("base.disk" :> disk) @@ ("base.save_dir" :> sd) @@
              ("base.bestfit_robust" :> bestfit) @@ ("clean.robust" :> robust) @@
              ("rave.pixel_scale" :> 3)
    IN  SetDirs(m0, GenParF)

\* the files of every rave fit of the disk: its radial fit and its residual
\* image
RaveFiles(m) ==
    LET ids == RaveVariants \X RaveNs
        v(id) == [rave_str |-> id[1], raveN |-> id[2]]
        tag(id) == <<m["base.disk"], id[1], id[2]>>
        fitf == [p \in {FitPath(m, v(id)) : id \in ids} |->
                   LET id == CHOOSE x \in ids : FitPath(m, v(x)) = p
                   IN  [fit |-> tag(id), r |-> <<1, 2>>, lo |-> <<1, 0>>,
                        I |-> <<id[2], 1>>, hi |-> <<id[2] + 2, 3>>]]
        resf == [p \in {ResidPath(m, v(id)) : id \in ids} |->
                   LET id == CHOOSE x \in ids : ResidPath(m, v(x)) = p
                   IN  [fit |-> tag(id), image |-> <<9 * m["rave.pixel_scale"]
                                                        * m["rave.pixel_scale"]>>]]
    IN  fitf @@ resf

RaveInit ==
    \E disk \in RaveDisks, robust \in RaveRobusts, bestfit \in RaveRobusts,
       sd \in SaveDirs :
        LET m == RaveModel(disk, robust, bestfit, sd)
        IN  /\ model = m
            /\ fs = RaveFiles(m)
            /\ opts = [disk |-> disk]
            /\ pc = "rave_ready"
            /\ figs = EmptyDict
            /\ written = {}
            /\ ii = 0 /\ disk_names = <<>> /\ gen_pars = Unbound
            /\ source_pars = Unbound /\ fits = Unbound /\ exc = NoExc
            /\ run = 1 /\ built = EmptyDict /\ loaded = {} /\ hist = Unbound

\* radial_pipeline.process_rave_fit(model)
ProcessRaveFit ==
    /\ pc = "rave_ready" /\ "process_rave_fit" \notin DOMAIN figs
    /\ LET v == ProcessRaveVariant(model)
           fit_path == FitPath(model, v)
           out == Join(model["base.rave_dir"],
                       <<ProfileName("rave", model["clean.robust"])>>)
       IN  /\ fs' = Put(fs, out, RaveProfileFrom(fit_path, fs[fit_path]))
           /\ written' = written \cup {[kind |-> "txt", path |-> out, disk |-> opts.disk]}
           /\ figs' = Put(figs, "process_rave_fit",
                          [rave_str |-> v.rave_str, raveN |-> v.raveN,
                           fit |-> fs[fit_path].fit])
    /\ UNCHANGED <<opts, pc, ii, disk_names, gen_pars, source_pars, model, fits,
                   exc, run, built, loaded, hist>>

\* a residual image converted from Jy / pixel to Jy / arcsec^2 (plot.py lines
\* 114-116, 305-307): the array read is a new one, divided in place
Converted(resid, m) ==
    [k \in 1..Len(resid.image) |->
        resid.image[k] \div (m["rave.pixel_scale"] * m["rave.pixel_scale"])]

\* plot.profile_comparison_figure: the rave residual image it reads (lines
\* 98-116)
ProfileFigureResidual ==
    /\ pc = "rave_ready" /\ "profile_figure" \notin DOMAIN figs
    /\ LET v == ProfileFigureVariant(model)
           resid == fs[ResidPath(model, v)]
       IN  figs' = Put(figs, "profile_figure",
                       [rave_str |-> v.rave_str, raveN |-> v.raveN,
                        fit |-> resid.fit, image |-> Converted(resid, model)])
    /\ UNCHANGED <<fs, opts, pc, ii, disk_names, gen_pars, source_pars, model, fits,
                   exc, written, run, built, loaded, hist>>

\* plot.image_comparison_figure: the rave residual image it reads (lines
\* 289-308)
ImageFigureResidual ==
    /\ pc = "rave_ready" /\ "image_figure" \notin DOMAIN figs
    /\ LET v == ImageFigureVariant(model)
           resid == fs[ResidPath(model, v)]
       IN  figs' = Put(figs, "image_figure",
                       [rave_str |-> v.rave_str, raveN |-> v.raveN,
                        fit |-> resid.fit, image |-> Converted(resid, model)])
    /\ UNCHANGED <<fs, opts, pc, ii, disk_names, gen_pars, source_pars, model, fits,
                   exc, written, run, built, loaded, hist>>

RaveNext == ProcessRaveFit \/ ProfileFigureResidual \/ ImageFigureResidual

RaveSpec == RaveInit /\ [][RaveNext]_vars

RavePlaces == {"process_rave_fit", "profile_figure", "image_figure"}

\* C21: each of the three places uses variant '1' exactly when clean.robust
\* is 0.5 and variant '2' otherwise, and N = 7 exactly when the disk is
\* HD161868 with variant '2' and N = 5 otherwise; so any two of them read
\* files of the same rave fit, and the profile process_rave_fit saved comes
\* from the fit whose residual image the figure builders read.
C21_RaveFilesAgree ==
    pc = "rave_ready" =>
        /\ \A a \in DOMAIN figs :
             /\ figs[a].rave_str = "1" <=> model["clean.robust"] = 5
             /\ figs[a].rave_str = "2" <=> model["clean.robust"] # 5
             /\ figs[a].raveN = 7 <=>
                   (model["base.disk"] = "HD161868" /\ figs[a].rave_str = "2")
             /\ figs[a].raveN = 5 <=>
                   ~(model["base.disk"] = "HD161868" /\ figs[a].rave_str = "2")
             /\ figs[a].fit = <<model["base.disk"], figs[a].rave_str, figs[a].raveN>>
        /\ \A a \in DOMAIN figs : \A b \in DOMAIN figs : figs[a].fit = figs[b].fit
        /\ \A w \in written : \A a \in DOMAIN figs : fs[w.path].fit = figs[a].fit

\* the three places have run for HD161868 at robust 2.0, its clean images
\* named by another robust value: all used variant '2' with N = 7
C21_Witness ==
    /\ pc = "rave_ready" /\ DOMAIN figs = RavePlaces
    /\ model["base.disk"] = "HD161868" /\ model["clean.robust"] = 20
    /\ model["base.bestfit_robust"] = 5
    /\ \A a \in RavePlaces : figs[a].fit = <<"HD161868", "2", 7>>
    /\ \E w \in written : fs[w.path].fit = <<"HD161868", "2", 7>>

====
